---- MODULE Spec2Model ----
(***************************************************************************)
(* terraform-data-interfaces: the annotation scanner, the schema matcher,  *)
(* the state extractor and the generators of src/main.go (the @public      *)
(* output pipeline, lines 1-426), as a state machine.                       *)
(*                                                                         *)
(* Text is kept as text: a declaration file is a sequence of lines, a line *)
(* a string, and the string functions and the two regular expressions of   *)
(* the scanner are computed character by character.                        *)
(***************************************************************************)
EXTENDS Integers, Sequences, FiniteSets, TLC

(***************************************************************************)
(* Strings (Go's strings package, as far as main.go uses it)               *)
(***************************************************************************)

\* unicode.IsSpace / the regexp class \s, on the characters the inputs use
IsSpace(c) == c \in {" ", "\t", "\n", "\r"}

\* the regexp class \w
WordChars ==
  {"a","b","c","d","e","f","g","h","i","j","k","l","m",
   "n","o","p","q","r","s","t","u","v","w","x","y","z",
   "A","B","C","D","E","F","G","H","I","J","K","L","M",
   "N","O","P","Q","R","S","T","U","V","W","X","Y","Z",
   "0","1","2","3","4","5","6","7","8","9","_"}

IsWord(c) == c \in WordChars

\* the character of s at position i (1-based), "" beyond the end
CharAt(s, i) == IF i >= 1 /\ i <= Len(s) THEN SubSeq(s, i, i) ELSE ""

\* strings.HasPrefix
HasPrefix(s, prefix) ==
  Len(s) >= Len(prefix) /\ SubSeq(s, 1, Len(prefix)) = prefix

\* s has sub at position i
HasAt(s, i, sub) ==
  i >= 1 /\ i + Len(sub) - 1 <= Len(s) /\ SubSeq(s, i, i + Len(sub) - 1) = sub

\* strings.Index, 1-based; 0 when sub does not occur
RECURSIVE IndexFrom(_, _, _)
IndexFrom(s, sub, i) ==
  IF i + Len(sub) - 1 > Len(s) THEN 0
  ELSE IF HasAt(s, i, sub) THEN i
  ELSE IndexFrom(s, sub, i + 1)

Index(s, sub) == IndexFrom(s, sub, 1)

\* strings.Contains
Contains(s, sub) == Index(s, sub) # 0

\* the number of places at or after position i where sub stands in s
RECURSIVE CountFrom(_, _, _)
CountFrom(s, sub, i) ==
  IF IndexFrom(s, sub, i) = 0 THEN 0
  ELSE 1 + CountFrom(s, sub, IndexFrom(s, sub, i) + Len(sub))

CountOf(s, sub) == CountFrom(s, sub, 1)

\* first position >= i of s that holds no space (Len(s)+1 when none)
RECURSIVE SkipSpace(_, _)
SkipSpace(s, i) ==
  IF i <= Len(s) /\ IsSpace(CharAt(s, i)) THEN SkipSpace(s, i + 1) ELSE i

\* first position >= i of s that holds no word character
RECURSIVE SkipWord(_, _)
SkipWord(s, i) ==
  IF i <= Len(s) /\ IsWord(CharAt(s, i)) THEN SkipWord(s, i + 1) ELSE i

\* last position <= i of s that holds no space (0 when none)
RECURSIVE SkipSpaceBack(_, _)
SkipSpaceBack(s, i) ==
  IF i >= 1 /\ IsSpace(CharAt(s, i)) THEN SkipSpaceBack(s, i - 1) ELSE i

\* strings.TrimSpace
TrimSpace(s) ==
  LET a == SkipSpace(s, 1)
      b == SkipSpaceBack(s, Len(s))
  IN IF a > b THEN "" ELSE SubSeq(s, a, b)

\* the positions of s that hold the one-character separator sep
SepPositions(s, sep) == { i \in 1..Len(s) : SubSeq(s, i, i) = sep }

\* the parts of s from position `from` on, cut at the positions seps
RECURSIVE SplitAt(_, _, _)
SplitAt(s, from, seps) ==
  IF \A i \in seps : i < from THEN << SubSeq(s, from, Len(s)) >>
  ELSE LET i == CHOOSE i \in seps :
                  i >= from /\ \A j \in seps : j >= from => i <= j
       IN << SubSeq(s, from, i - 1) >> \o SplitAt(s, i + 1, seps)

\* strings.Split(s, sep) for a one-character separator: always at least one part
Split(s, sep) == SplitAt(s, 1, SepPositions(s, sep))

\* strings.Join
RECURSIVE Join(_, _)
Join(parts, sep) ==
  IF Len(parts) = 0 THEN ""
  ELSE IF Len(parts) = 1 THEN parts[1]
  ELSE parts[1] \o sep \o Join(Tail(parts), sep)

\* end of the line that position i of s lies on: the position of the next
\* "\n" at or after i, Len(s)+1 when none
RECURSIVE LineEnd(_, _)
LineEnd(s, i) ==
  IF i > Len(s) \/ CharAt(s, i) = "\n" THEN i ELSE LineEnd(s, i + 1)

(***************************************************************************)
(* The scanner's two regular expressions                                   *)
(***************************************************************************)

NoMatch == << >>

\* regexp `output\s+"(\w+)"` tried at position i: << name >> or NoMatch.
\* \s+ and \w+ are followed by a character outside their class, so the
\* greedy run is the only candidate.
OutputNameAt(s, i) ==
  IF ~HasAt(s, i, "output") THEN NoMatch
  ELSE LET a == i + 6
           b == SkipSpace(s, a)
       IN IF b = a \/ CharAt(s, b) # "\"" THEN NoMatch
          ELSE LET c == SkipWord(s, b + 1)
               IN IF c = b + 1 \/ CharAt(s, c) # "\"" THEN NoMatch
                  ELSE << SubSeq(s, b + 1, c - 1) >>

\* leftmost match of `output\s+"(\w+)"` in s
RECURSIVE FindOutputName(_, _)
FindOutputName(s, i) ==
  IF i > Len(s) THEN NoMatch
  ELSE LET m == OutputNameAt(s, i)
       IN IF m # NoMatch THEN m ELSE FindOutputName(s, i + 1)

\* last position p in a..b-1 of s with a character other than "\n", 0 if none
RECURSIVE LastNonNewline(_, _, _)
LastNonNewline(s, a, b) ==
  IF b - 1 < a THEN 0
  ELSE IF CharAt(s, b - 1) # "\n" THEN b - 1
  ELSE LastNonNewline(s, a, b - 1)

\* regexp `value\s*=\s*(.+)` tried at position i: << reference >> or NoMatch.
\* `.` matches no "\n"; the second \s* is greedy and may run over line ends,
\* and gives characters back only when it has run to the end of s.
ValueAt(s, i) ==
  IF ~HasAt(s, i, "value") THEN NoMatch
  ELSE LET e == SkipSpace(s, i + 5)
       IN IF CharAt(s, e) # "=" THEN NoMatch
          ELSE LET q == SkipSpace(s, e + 1)
               IN IF q <= Len(s) THEN << SubSeq(s, q, LineEnd(s, q) - 1) >>
                  ELSE LET p == LastNonNewline(s, e + 1, q)
                       IN IF p = 0 THEN NoMatch ELSE << SubSeq(s, p, p) >>

\* leftmost match of `value\s*=\s*(.+)` in s
RECURSIVE FindValue(_, _)
FindValue(s, i) ==
  IF i > Len(s) THEN NoMatch
  ELSE LET m == ValueAt(s, i)
       IN IF m # NoMatch THEN m ELSE FindValue(s, i + 1)

\* extractOutputInfo: << outputName, reference >>, << "", "" >> without a name
extractOutputInfo(outputBlock) ==
  LET matches == FindOutputName(outputBlock, 1)
  IN IF matches # NoMatch
     THEN LET referenceMatch == FindValue(outputBlock, 1)
          IN << matches[1],
                IF referenceMatch # NoMatch THEN referenceMatch[1] ELSE "" >>
     ELSE << "", "" >>

(***************************************************************************)
(* State                                                                   *)
(***************************************************************************)

VARIABLES
  projects,         \* terraformProjectPaths of this invocation of main
  world,            \* per project path: what the tool finds there (status of
                    \* the terraform commands, state, schema, declaration files)
  fs,               \* per project path: the interface directory and its files
  pc,               \* where main stands
  idx,              \* index in projects of the project being processed
  state,            \* main's local: the fetched TerraformState (resources)
  schema,           \* main's local: the fetched ProviderSchema (provider_schemas)
  fileIdx,          \* findAnnotatedOutputs: file of the walk being read (0: none yet)
  lineNumber,       \* findAnnotatedOutputs: lines of that file consumed
  inAnnotation,     \* findAnnotatedOutputs: a marker comment is pending
  annotatedOutputs, \* findAnnotatedOutputs: its result so far
  validOutputs,     \* main's local: the outputs with a matching data source
  stdout,           \* the red warnings printed by main, in order
  run,              \* invocations of main so far
  prevFs,           \* fs as the previous invocation left it (history)
  prevWorld         \* world as the previous invocation found it (history)

vars == << projects, world, fs, pc, idx, state, schema, fileIdx, lineNumber,
           inAnnotation, annotatedOutputs, validOutputs, stdout, run, prevFs,
           prevWorld >>

scanVars == << fileIdx, lineNumber, inAnnotation, annotatedOutputs >>

\* the project being processed and what the tool finds there
CurPath == projects[idx]
CurTree == world[CurPath].tree

(***************************************************************************)
(* findAnnotatedOutputs (main.go:73-137)                                   *)
(***************************************************************************)

Marker == "@public"
Keyword == "output"

\* main.go:98: the trimmed line is a comment
IsComment(line) == HasPrefix(line, "#") \/ HasPrefix(line, "//")

\* main.go:98-99: a comment line that holds the marker
IsMarkerComment(line) == IsComment(line) /\ Contains(line, Marker)

\* main.go:106: the trimmed line starts a declaration
IsOutputStart(line) == HasPrefix(line, Keyword)

\* main.go:79: the walk reads only files with these suffixes
HasSuffix(s, suffix) ==
  Len(s) >= Len(suffix) /\ SubSeq(s, Len(s) - Len(suffix) + 1, Len(s)) = suffix

IsDeclarationFile(name) == HasSuffix(name, ".tf") \/ HasSuffix(name, ".tf.json")

\* CaptureEnd as it would be if the capture counted the delimiters and ended
\* on the line that closes the block opened on line n
RECURSIVE CaptureEndFrom(_, _, _)
CaptureEndFrom(lines, k, depth) ==
  LET d == depth + CountOf(lines[k], "{") - CountOf(lines[k], "}")
  IN IF d <= 0 \/ k = Len(lines) THEN k ELSE CaptureEndFrom(lines, k + 1, d)

CaptureEndNested(lines, n) == CaptureEndFrom(lines, n, 0)

\* CaptureEnd as it would be if the starting line were tested for "}" too
RECURSIVE CaptureEndChecked(_, _)
CaptureEndChecked(lines, n) ==
  IF Contains(lines[n], "}") \/ n + 1 > Len(lines) THEN n
  ELSE IF HasPrefix(TrimSpace(lines[n + 1]), "}") THEN n + 1
  ELSE CaptureEndChecked(lines, n + 1)

\* main.go:108-115: the inner loop started on line n of lines reads on to the
\* first later line that (trimmed) begins with "}", or to the end of the file;
\* the number of the last line it consumed
RECURSIVE CaptureEnd(_, _)
CaptureEnd(lines, n) ==
  IF n + 1 > Len(lines) THEN n
  ELSE IF HasPrefix(TrimSpace(lines[n + 1]), "}") THEN n + 1
  ELSE CaptureEnd(lines, n + 1)

\* main.go:107-111: the captured block, lines a..b trimmed and joined by "\n"
RECURSIVE BlockText(_, _, _)
BlockText(lines, a, b) ==
  IF a > b THEN ""
  ELSE IF a = b THEN TrimSpace(lines[a])
  ELSE TrimSpace(lines[a]) \o "\n" \o BlockText(lines, a + 1, b)

\* EmittedOutputs as it would be if Line were the line of the keyword
EmittedOutputsAtStart(path, lines, a, b) ==
  LET info == extractOutputInfo(BlockText(lines, a, b))
  IN IF info[1] # ""
     THEN << [File |-> path, Line |-> a, Output |-> info[1],
              Reference |-> info[2]] >>
     ELSE << >>

\* main.go:116-124: the record appended for a captured block, if any
EmittedOutputs(path, lines, a, b) ==
  LET info == extractOutputInfo(BlockText(lines, a, b))
  IN IF info[1] # ""
     THEN << [File |-> path, Line |-> b, Output |-> info[1],
              Reference |-> info[2]] >>
     ELSE << >>

\* ScanStep as it would be if line 105 did not test inAnnotation
ScanStepUnmarked(file, sc) ==
  LET n == sc.lineNumber + 1
      line == TrimSpace(file.lines[n])
  IN IF IsComment(line)
     THEN [sc EXCEPT !.lineNumber = n,
                     !.inAnnotation = sc.inAnnotation \/ Contains(line, Marker)]
     ELSE IF IsOutputStart(line)
     THEN LET b == CaptureEnd(file.lines, n)
          IN [lineNumber |-> b, inAnnotation |-> FALSE,
              out |-> sc.out \o EmittedOutputs(file.path, file.lines, n, b)]
     ELSE [sc EXCEPT !.lineNumber = n]

\* ScanStep as it would be if every line that starts no capture set
\* inAnnotation anew: a comment without the marker or another line cancels it
ScanStepCancelling(file, sc) ==
  LET n == sc.lineNumber + 1
      line == TrimSpace(file.lines[n])
  IN IF IsComment(line)
     THEN [sc EXCEPT !.lineNumber = n, !.inAnnotation = Contains(line, Marker)]
     ELSE IF sc.inAnnotation /\ IsOutputStart(line)
     THEN LET b == CaptureEnd(file.lines, n)
          IN [lineNumber |-> b, inAnnotation |-> FALSE,
              out |-> sc.out \o EmittedOutputs(file.path, file.lines, n, b)]
     ELSE [sc EXCEPT !.lineNumber = n, !.inAnnotation = FALSE]

\* ScanStep as it would be without the reset of main.go:126
ScanStepSticky(file, sc) ==
  LET n == sc.lineNumber + 1
      line == TrimSpace(file.lines[n])
  IN IF IsComment(line)
     THEN [sc EXCEPT !.lineNumber = n,
                     !.inAnnotation = sc.inAnnotation \/ Contains(line, Marker)]
     ELSE IF sc.inAnnotation /\ IsOutputStart(line)
     THEN LET b == CaptureEnd(file.lines, n)
          IN [lineNumber |-> b, inAnnotation |-> TRUE,
              out |-> sc.out \o EmittedOutputs(file.path, file.lines, n, b)]
     ELSE [sc EXCEPT !.lineNumber = n]

\* main.go:92-129: one iteration of the outer loop on the file `file`, from
\* the scanner state sc = [lineNumber, inAnnotation, out]
ScanStep(file, sc) ==
  LET n == sc.lineNumber + 1
      line == TrimSpace(file.lines[n])
  IN IF IsComment(line)
     THEN [sc EXCEPT !.lineNumber = n,
                     !.inAnnotation = sc.inAnnotation \/ Contains(line, Marker)]
     ELSE IF sc.inAnnotation /\ IsOutputStart(line)
     THEN LET b == CaptureEnd(file.lines, n)
          IN [lineNumber |-> b, inAnnotation |-> FALSE,
              out |-> sc.out \o EmittedOutputs(file.path, file.lines, n, b)]
     ELSE [sc EXCEPT !.lineNumber = n]

\* the file being read has lines left
FileOpen == fileIdx >= 1 /\ fileIdx <= Len(CurTree)
MoreLines == FileOpen /\ lineNumber < Len(CurTree[fileIdx].lines)

\* WalkFile as it would be if inAnnotation were declared outside the walk
\* function and kept its value from file to file
WalkFileKeeping ==
  /\ pc = "scan"
  /\ ~MoreLines
  /\ fileIdx < Len(CurTree)
  /\ fileIdx' = fileIdx + 1
  /\ inAnnotation' = inAnnotation
  /\ lineNumber' = IF IsDeclarationFile(CurTree[fileIdx + 1].path) THEN 0
                   ELSE Len(CurTree[fileIdx + 1].lines)
  /\ UNCHANGED << projects, world, fs, pc, idx, state, schema,
                  annotatedOutputs, validOutputs, stdout, run, prevFs,
                  prevWorld >>

\* main.go:75-91: the walk comes to its next entry; a declaration file is
\* opened with a fresh recognizer, any other entry is passed over
WalkFile ==
  /\ pc = "scan"
  /\ ~MoreLines
  /\ fileIdx < Len(CurTree)
  /\ fileIdx' = fileIdx + 1
  /\ IF IsDeclarationFile(CurTree[fileIdx + 1].path)
     THEN /\ inAnnotation' = FALSE
          /\ lineNumber' = 0
     ELSE /\ inAnnotation' = inAnnotation
          /\ lineNumber' = Len(CurTree[fileIdx + 1].lines)
  /\ UNCHANGED << projects, world, fs, pc, idx, state, schema,
                  annotatedOutputs, validOutputs, stdout, run, prevFs,
                  prevWorld >>

\* main.go:92-129: one iteration of the outer loop
ScanLine ==
  /\ pc = "scan"
  /\ MoreLines
  /\ LET sc == ScanStep(CurTree[fileIdx],
                        [lineNumber |-> lineNumber,
                         inAnnotation |-> inAnnotation,
                         out |-> annotatedOutputs])
     IN /\ lineNumber' = sc.lineNumber
        /\ inAnnotation' = sc.inAnnotation
        /\ annotatedOutputs' = sc.out
  /\ UNCHANGED << projects, world, fs, pc, idx, state, schema, fileIdx,
                  validOutputs, stdout, run, prevFs, prevWorld >>

\* main.go:131-136, 402-405: the walk is over and findAnnotatedOutputs
\* returns; without annotated outputs main goes on to leave the project
ScanDone ==
  /\ pc = "scan"
  /\ ~MoreLines
  /\ fileIdx = Len(CurTree)
  /\ pc' = IF Len(annotatedOutputs) = 0 THEN "leave" ELSE "filter"
  /\ UNCHANGED << projects, world, fs, idx, state, schema, fileIdx, lineNumber,
                  inAnnotation, annotatedOutputs, validOutputs, stdout, run,
                  prevFs, prevWorld >>

(***************************************************************************)
(* Schema matcher and state extractor (main.go:191-229)                    *)
(*                                                                         *)
(* A ProviderSchema is a function from provider source to                  *)
(* [ResourceSchemas: the set of its resource types (only the keys are      *)
(* read), DataSourceSchemas: data source type -> attribute name ->         *)
(* [Required, Optional, Computed]].  A TerraformState is the sequence of   *)
(* values.root_module.resources, each [Address, Values].  Go ranges over a *)
(* map in an unspecified order that changes from run to run: every range   *)
(* over a map is a choice among the orders.                                *)
(***************************************************************************)

\* the orders in which a range over a map with key set S may yield its keys
RECURSIVE Perms(_)
Perms(S) ==
  IF S = {} THEN { << >> }
  ELSE UNION { { << x >> \o rest : rest \in Perms(S \ {x}) } : x \in S }

\* main.go:192-195, 255-258: the dotted components of a reference
RefParts(reference) == Split(reference, ".")

\* main.go:193: findMatchingDataResource ends the process on such a reference
TooFewParts(reference) == Len(RefParts(reference)) < 2

\* main.go:196
RefType(reference) == RefParts(reference)[1]

\* main.go:198: the providers with a data source of this type
DataProviders(resourceType, sch) ==
  { p \in DOMAIN sch : resourceType \in DOMAIN sch[p].DataSourceSchemas }

\* RequiredNames as it would be if main.go:201 did not test Required
AttributeNames(attributes) == DOMAIN attributes

\* main.go:200-204: the required attribute names of one data source schema
RequiredNames(attributes) ==
  { a \in DOMAIN attributes : attributes[a].Required }

\* main.go:197-208: the results findMatchingDataResource may return for a
\* reference with at least two components, << found, requiredAttributes >>:
\* the first provider that the range yields with a data source of the type
\* decides, and its required attributes come in the order of a second range
findMatchingDataResource(reference, sch) ==
  LET resourceType == RefType(reference)
      ps == DataProviders(resourceType, sch)
  IN IF ps = {} THEN { << FALSE, << >> >> }
     ELSE UNION { { << TRUE, attrs >> :
                      attrs \in Perms(RequiredNames(
                                  sch[p].DataSourceSchemas[resourceType])) } :
                  p \in ps }

\* main.go:409-410: the found flag, which no iteration order changes
hasMatchingDataResource(reference, sch) ==
  DataProviders(RefType(reference), sch) # {}

\* main.go:211-220: the first entry with this address that has the attribute
\* decides: << value, TRUE >>, or << NoValue, FALSE >> when there is none
NoValue == [kind |-> "none"]

RECURSIVE extractAttributeFrom(_, _, _, _)
extractAttributeFrom(reference, attribute, st, i) ==
  IF i > Len(st) THEN << NoValue, FALSE >>
  ELSE IF st[i].Address = reference /\ attribute \in DOMAIN st[i].Values
  THEN << st[i].Values[attribute], TRUE >>
  ELSE extractAttributeFrom(reference, attribute, st, i + 1)

extractAttributeValue(reference, attribute, st) ==
  extractAttributeFrom(reference, attribute, st, 1)

\* decimal digits of a natural number (strconv, for %d and for %v of a number)
Digits == << "0", "1", "2", "3", "4", "5", "6", "7", "8", "9" >>

RECURSIVE Itoa(_)
Itoa(n) == IF n < 10 THEN Digits[n + 1] ELSE Itoa(n \div 10) \o Digits[(n % 10) + 1]

\* fmt's %v of a decoded JSON value: a string as it is, null as <nil>, a
\* boolean as true/false, a whole number below 1e6 in decimal digits
FormatV(value) ==
  CASE value.kind = "string" -> value.s
    [] value.kind = "null"   -> "<nil>"
    [] value.kind = "bool"   -> IF value.b THEN "true" ELSE "false"
    [] value.kind = "number" -> Itoa(value.n)

(***************************************************************************)
(* Generators (main.go:231-331)                                            *)
(***************************************************************************)

DataFile == "generated_data.tf"
ProvidersFile == "generated_providers.tf"
OutputsFile == "generated_outputs.tf"

\* main.go:255-258, 308-311: createTerraformFile and createProviderFile end
\* the process on a reference that has not exactly three components
NotThreeParts(reference) == Len(RefParts(reference)) # 3

\* main.go:259-261
ResourceAddress(reference) ==
  RefParts(reference)[1] \o "." \o RefParts(reference)[2]

\* AttributeLine without the else branch of main.go:285-288, as in the
\* generator for annotated resources (main.go:692-696)
AttributeLineOmitted(resourceReference, attr, st) ==
  LET r == extractAttributeValue(resourceReference, attr, st)
  IN IF r[2]
     THEN "  " \o attr \o " = \"" \o FormatV(r[1]) \o "\"\n"
     ELSE ""

\* main.go:282-288: the line of one required attribute
AttributeLine(resourceReference, attr, st) ==
  LET r == extractAttributeValue(resourceReference, attr, st)
  IN IF r[2]
     THEN "  " \o attr \o " = \"" \o FormatV(r[1]) \o "\"\n"
     ELSE "  " \o attr \o " = \"\"\n"

RECURSIVE AttributeLines(_, _, _)
AttributeLines(resourceReference, attrs, st) ==
  IF Len(attrs) = 0 THEN ""
  ELSE AttributeLine(resourceReference, attrs[1], st)
         \o AttributeLines(resourceReference, Tail(attrs), st)

\* main.go:222-229: getResourceState; whether some state entry has this
\* address (main only logs the values it returns)
getResourceState(reference, st) ==
  \E i \in DOMAIN st : st[i].Address = reference

\* DataBlock as it would be if the block were written only for a resource
\* that getResourceState finds
DataBlockInState(resourceType, resourceName, attrs, st) ==
  IF getResourceState(resourceType \o "." \o resourceName, st)
  THEN "data \"" \o resourceType \o "\" \"" \o resourceName \o "\" {\n"
         \o AttributeLines(resourceType \o "." \o resourceName, attrs, st)
         \o "}\n\n"
  ELSE ""

\* main.go:280-290: the data block of a resource
DataBlock(resourceType, resourceName, attrs, st) ==
  "data \"" \o resourceType \o "\" \"" \o resourceName \o "\" {\n"
    \o AttributeLines(resourceType \o "." \o resourceName, attrs, st)
    \o "}\n\n"

\* main.go:254-293: what the loop may have buffered for outputs[i..], given
\* the addresses seen so far (all references have three components)
RECURSIVE DataContents(_, _, _, _, _)
DataContents(outputs, i, seen, st, sch) ==
  IF i > Len(outputs) THEN { "" }
  ELSE LET parts == RefParts(outputs[i].Reference)
           uniqueKey == parts[1] \o "." \o parts[2]
       IN IF uniqueKey \in seen
          THEN DataContents(outputs, i + 1, seen, st, sch)
          ELSE LET rest == DataContents(outputs, i + 1, seen \cup {uniqueKey},
                                        st, sch)
               IN { IF m[1] THEN DataBlock(parts[1], parts[2], m[2], st) \o r
                    ELSE r :
                      m \in findMatchingDataResource(uniqueKey, sch),
                      r \in rest }

\* createTerraformFile as it would be if the blocks buffered before the
\* abort reached the file
createTerraformFileFlushing(outputs, st, sch) ==
  IF \E i \in 1..Len(outputs) : NotThreeParts(outputs[i].Reference)
  THEN LET bad == CHOOSE i \in 1..Len(outputs) :
                    /\ NotThreeParts(outputs[i].Reference)
                    /\ \A j \in 1..(i - 1) : ~NotThreeParts(outputs[j].Reference)
       IN [aborted |-> TRUE,
           contents |-> DataContents(SubSeq(outputs, 1, bad - 1), 1, {}, st, sch)]
  ELSE [aborted |-> FALSE, contents |-> DataContents(outputs, 1, {}, st, sch)]

\* main.go:245-296: createTerraformFile; [aborted, contents]: the process
\* ends at the first reference without three components, after os.Create
\* has emptied the file and before the buffer is flushed (the blocks are
\* far shorter than bufio's 4096 bytes); otherwise the file gets one of
\* the possible contents
createTerraformFile(outputs, st, sch) ==
  IF \E i \in 1..Len(outputs) : NotThreeParts(outputs[i].Reference)
  THEN [aborted |-> TRUE, contents |-> { "" }]
  ELSE [aborted |-> FALSE, contents |-> DataContents(outputs, 1, {}, st, sch)]

\* main.go:315: strings.Split(providerSource, "/")[2] panics (index out of
\* range) on a source with fewer than three segments
SourceParts(providerSource) == Split(providerSource, "/")
ProviderNamePanics(providerSource) == Len(SourceParts(providerSource)) < 3
ProviderName(providerSource) == SourceParts(providerSource)[3]

\* main.go:313-318: the providers with a resource schema of this type
ResourceProviders(resourceType, sch) ==
  { p \in DOMAIN sch : resourceType \in sch[p].ResourceSchemas }

\* main.go:315: the providers with a resource schema of this type, each with
\* its providerName: << providerName, providerSource >>
NamedProviders(resourceType, sch) ==
  { << ProviderName(p), p >> : p \in ResourceProviders(resourceType, sch) }

\* main.go:316: providers[providerName] = providerSource
PutProvider(providers, providerName, providerSource) ==
  [n \in DOMAIN providers \cup {providerName} |->
     IF n = providerName THEN providerSource ELSE providers[n]]

\* main.go:313-318: the map after one range over the provider schemas that
\* yields the providers with a resource schema of the type in the order
\* perm (the other providers leave the map as it is), from position k on
RECURSIVE PutProviders(_, _, _)
PutProviders(perm, k, providers) ==
  IF k > Len(perm) THEN providers
  ELSE PutProviders(perm, k + 1,
                    PutProvider(providers, perm[k][1], perm[k][2]))

\* main.go:307-319: the maps the loop over the outputs may end with
RECURSIVE ProviderMaps(_, _, _, _)
ProviderMaps(outputs, i, sch, maps) ==
  IF i > Len(outputs) THEN maps
  ELSE ProviderMaps(outputs, i + 1, sch,
         { PutProviders(perm, 1, m) :
             perm \in Perms(NamedProviders(RefType(outputs[i].Reference), sch)),
             m \in maps })

\* main.go:323-325: one entry of required_providers
ProviderEntry(provider, source) ==
  "    " \o provider \o " = {\n"
    \o "      source = \"" \o source \o "\"\n"
    \o "    }\n"

RECURSIVE ProviderEntries(_, _)
ProviderEntries(order, providers) ==
  IF Len(order) = 0 THEN ""
  ELSE ProviderEntry(order[1], providers[order[1]])
         \o ProviderEntries(Tail(order), providers)

\* main.go:320-328: the file for one map, its entries in the order of a range
ProvidersText(order, providers) ==
  "terraform {\n" \o "  required_providers {\n"
    \o ProviderEntries(order, providers)
    \o "  }\n" \o "}\n"

EmptyMap == [n \in {} |-> ""]

\* main.go:298-331: createProviderFile; [aborted, contents]: the process ends
\* in the loop (on a reference without three components, or by the panic of
\* main.go:315) after os.Create has emptied the file and before anything is
\* flushed; otherwise the file gets one of the possible contents
createProviderFile(outputs, sch) ==
  IF \/ \E i \in 1..Len(outputs) : NotThreeParts(outputs[i].Reference)
     \/ \E i \in 1..Len(outputs) :
          \E p \in ResourceProviders(RefType(outputs[i].Reference), sch) :
            ProviderNamePanics(p)
  THEN [aborted |-> TRUE, contents |-> { "" }]
  ELSE [aborted |-> FALSE,
        contents |-> UNION { { ProvidersText(order, m) : order \in Perms(DOMAIN m) } :
                             m \in ProviderMaps(outputs, 1, sch, { EmptyMap }) }]

(***************************************************************************)
(* main (main.go:333-426)                                                  *)
(***************************************************************************)

\* main.go:413: the warning for an output without a matching data source
Warning(output) ==
  [Output |-> output.Output, Line |-> output.Line, File |-> output.File]

\* main.go:409, 193-195: index of the first output at which the loop of main
\* ends the process, 0 when there is none
RECURSIVE FirstTooFew(_, _)
FirstTooFew(outputs, i) ==
  IF i > Len(outputs) THEN 0
  ELSE IF TooFewParts(outputs[i].Reference) THEN i
  ELSE FirstTooFew(outputs, i + 1)

\* main.go:408-415: the outputs the loop gets through
Processed(outputs) ==
  IF FirstTooFew(outputs, 1) = 0 THEN outputs
  ELSE SubSeq(outputs, 1, FirstTooFew(outputs, 1) - 1)

\* ValidOutputs as it would be if main.go:410 appended every output
ValidOutputsUnfiltered(outputs, sch) == Processed(outputs)

\* main.go:410-411
ValidOutputs(outputs, sch) ==
  SelectSeq(Processed(outputs),
            LAMBDA o : hasMatchingDataResource(o.Reference, sch))

\* main.go:412-413
RECURSIVE Warnings(_, _)
Warnings(outputs, sch) ==
  IF Len(outputs) = 0 THEN << >>
  ELSE (IF hasMatchingDataResource(outputs[1].Reference, sch) THEN << >>
        ELSE << Warning(outputs[1]) >>) \o Warnings(Tail(outputs), sch)

\* os.Create: the file exists afterwards and holds exactly this content
WriteFile(files, name, content) ==
  [n \in DOMAIN files \cup {name} |-> IF n = name THEN content ELSE files[n]]

NoFiles == [n \in {} |-> ""]
NoSchema == [p \in {} |-> 0]

Exited == pc \in {"done", "fatal", "panic"}

\* main.go:384-389: the loop comes to a project and changes into its
\* directory; a path that does not exist ends the process
EnterProject ==
  /\ pc = "chdir"
  /\ pc' = IF world[CurPath].status = "missing" THEN "fatal" ELSE "fetchState"
  /\ state' = << >>
  /\ schema' = NoSchema
  /\ fileIdx' = 0
  /\ lineNumber' = 0
  /\ inAnnotation' = FALSE
  /\ annotatedOutputs' = << >>
  /\ validOutputs' = << >>
  /\ UNCHANGED << projects, world, fs, idx, stdout, run, prevFs, prevWorld >>

\* main.go:394-397, 155-171: `show -json`; a failing command ends the process
FetchTerraformState ==
  /\ pc = "fetchState"
  /\ IF world[CurPath].status = "no_state"
     THEN pc' = "fatal" /\ state' = state
     ELSE pc' = "fetchSchema" /\ state' = world[CurPath].state
  /\ UNCHANGED << projects, world, fs, idx, schema, fileIdx, lineNumber,
                  inAnnotation, annotatedOutputs, validOutputs, stdout, run,
                  prevFs, prevWorld >>

\* main.go:398-401, 173-189: `providers schema -json`; a failing command ends
\* the process
FetchProviderSchema ==
  /\ pc = "fetchSchema"
  /\ IF world[CurPath].status = "no_schema"
     THEN pc' = "fatal" /\ schema' = schema
     ELSE pc' = "scan" /\ schema' = world[CurPath].schema
  /\ UNCHANGED << projects, world, fs, idx, state, fileIdx, lineNumber,
                  inAnnotation, annotatedOutputs, validOutputs, stdout, run,
                  prevFs, prevWorld >>

\* main.go:406-416: the loop over the annotated outputs
FilterOutputs ==
  /\ pc = "filter"
  /\ validOutputs' = ValidOutputs(annotatedOutputs, schema)
  /\ stdout' = stdout \o Warnings(Processed(annotatedOutputs), schema)
  /\ pc' = IF FirstTooFew(annotatedOutputs, 1) # 0 THEN "fatal"
           ELSE IF Len(ValidOutputs(annotatedOutputs, schema)) > 0 THEN "mkdir"
           ELSE "leave"
  /\ UNCHANGED << projects, world, fs, idx, state, schema, fileIdx, lineNumber,
                  inAnnotation, annotatedOutputs, run, prevFs, prevWorld >>

\* main.go:417, 231-243: createInterfaceDirectory
CreateInterfaceDirectory ==
  /\ pc = "mkdir"
  /\ fs' = [fs EXCEPT ![CurPath].dir = TRUE]
  /\ pc' = "data"
  /\ UNCHANGED << projects, world, idx, state, schema, fileIdx, lineNumber,
                  inAnnotation, annotatedOutputs, validOutputs, stdout, run,
                  prevFs, prevWorld >>

\* main.go:418, 245-296: createTerraformFile
CreateTerraformFile ==
  /\ pc = "data"
  /\ LET r == createTerraformFile(validOutputs, state, schema)
     IN /\ \E c \in r.contents :
             fs' = [fs EXCEPT ![CurPath].files = WriteFile(@, DataFile, c)]
        /\ pc' = IF r.aborted THEN "fatal" ELSE "providers"
  /\ UNCHANGED << projects, world, idx, state, schema, fileIdx, lineNumber,
                  inAnnotation, annotatedOutputs, validOutputs, stdout, run,
                  prevFs, prevWorld >>

\* main.go:419, 298-331: createProviderFile
CreateProviderFile ==
  /\ pc = "providers"
  /\ LET r == createProviderFile(validOutputs, schema)
     IN /\ \E c \in r.contents :
             fs' = [fs EXCEPT ![CurPath].files = WriteFile(@, ProvidersFile, c)]
        /\ pc' = IF r.aborted THEN "panic" ELSE "leave"
  /\ UNCHANGED << projects, world, idx, state, schema, fileIdx, lineNumber,
                  inAnnotation, annotatedOutputs, validOutputs, stdout, run,
                  prevFs, prevWorld >>

\* main.go:422-425: back to the original directory, and on to the next
\* project or to the end of main
LeaveProject ==
  /\ pc = "leave"
  /\ IF idx < Len(projects)
     THEN idx' = idx + 1 /\ pc' = "chdir"
     ELSE idx' = idx /\ pc' = "done"
  /\ UNCHANGED << projects, world, fs, state, schema, fileIdx, lineNumber,
                  inAnnotation, annotatedOutputs, validOutputs, stdout, run,
                  prevFs, prevWorld >>

(***************************************************************************)
(* The tool is run again (README.md:43-51): the interface directory of the *)
(* earlier run is still there; the project is as it was, or its author has *)
(* taken the marker comments out in between.                               *)
(***************************************************************************)

MaxRuns == 2

\* a declaration file without its marker comments
UnpublishedFile(file) ==
  [file EXCEPT !.lines =
     SelectSeq(file.lines, LAMBDA l : ~IsMarkerComment(TrimSpace(l)))]

Unpublished(w) ==
  [p \in DOMAIN w |->
     [w[p] EXCEPT !.tree = [k \in DOMAIN w[p].tree |-> UnpublishedFile(w[p].tree[k])]]]

Rerun ==
  /\ Exited
  /\ run < MaxRuns
  /\ \E w \in {world, Unpublished(world)} : world' = w
  /\ prevWorld' = world
  /\ prevFs' = fs
  /\ run' = run + 1
  /\ pc' = "chdir"
  /\ idx' = 1
  /\ stdout' = << >>
  /\ UNCHANGED << projects, fs, state, schema, fileIdx, lineNumber,
                  inAnnotation, annotatedOutputs, validOutputs >>

Next ==
  \/ EnterProject
  \/ FetchTerraformState
  \/ FetchProviderSchema
  \/ WalkFile
  \/ ScanLine
  \/ ScanDone
  \/ FilterOutputs
  \/ CreateInterfaceDirectory
  \/ CreateTerraformFile
  \/ CreateProviderFile
  \/ LeaveProject
  \/ Rerun

(***************************************************************************)
(* Inputs                                                                  *)
(***************************************************************************)

\* decoded JSON values of a state entry
Str(s) == [kind |-> "string", s |-> s]
Null == [kind |-> "null"]
Bool(b) == [kind |-> "bool", b |-> b]
Num(n) == [kind |-> "number", n |-> n]

\* attributes of a schema block
Req == [Required |-> TRUE, Optional |-> FALSE, Computed |-> FALSE]
Opt == [Required |-> FALSE, Optional |-> TRUE, Computed |-> FALSE]
Comp == [Required |-> FALSE, Optional |-> FALSE, Computed |-> TRUE]

\* provider sources: two registries with a provider of the same short name,
\* a second provider, and a source written without its registry host
AwsSource == "registry.terraform.io/hashicorp/aws"
AwsTofuSource == "registry.opentofu.org/hashicorp/aws"
LocalSource == "registry.terraform.io/hashicorp/local"
ShortSource == "hashicorp/random"

\* what a provider may declare
ProviderDetails ==
  [ aws_full |->
      [ResourceSchemas |-> {"aws_instance"},
       DataSourceSchemas |-> ("aws_instance" :> (("id" :> Req) @@ ("arn" :> Req)))],
    aws_resource_only |->
      [ResourceSchemas |-> {"aws_instance"},
       DataSourceSchemas |-> [t \in {} |-> 0]],
    aws_tofu |->
      [ResourceSchemas |-> {"aws_instance"},
       DataSourceSchemas |->
         ("aws_instance" :> (("id" :> Req) @@ ("tags" :> Opt) @@ ("arn" :> Comp)))],
    local_full |->
      [ResourceSchemas |-> {"local_file"},
       DataSourceSchemas |-> ("local_file" :> ("filename" :> Req))],
    random_full |->
      [ResourceSchemas |-> {"random_pet"},
       DataSourceSchemas |-> ("random_pet" :> ("id" :> Req))] ]

\* the declarations each source may come with ("absent": not in the schema)
ProviderOptions ==
  (AwsSource :> {"absent", "aws_full", "aws_resource_only"})
    @@ (AwsTofuSource :> {"absent", "aws_tofu"})
    @@ (LocalSource :> {"absent", "local_full"})
    @@ (ShortSource :> {"absent", "random_full"})

SchemaOf(choice) ==
  [p \in { q \in DOMAIN choice : choice[q] # "absent" } |->
     ProviderDetails[choice[p]]]

\* the schemas over the sources `sources`
Schemas(sources) ==
  { SchemaOf(choice) :
      choice \in { c \in [sources -> UNION { ProviderOptions[q] : q \in sources }] :
                     \A q \in sources : c[q] \in ProviderOptions[q] } }

\* state entries
FooEntry == [Address |-> "aws_instance.foo", Values |-> ("id" :> Str("i-123"))]
FooEntryFull ==
  [Address |-> "aws_instance.foo",
   Values |-> ("id" :> Num(42)) @@ ("arn" :> Str("arn:aws:ec2")) @@ ("tags" :> Null)]
BarEntry == [Address |-> "local_file.bar", Values |-> ("filename" :> Str("./bar.txt"))]

\* the sequences over S of length at most n
SeqsUpTo(S, n) == UNION { [1..k -> S] : k \in 0..n }

\* value expressions of annotated outputs
IdRef == "aws_instance.foo.id"
FileRef == "local_file.bar.filename"
PetRef == "random_pet.pet.id"
TwoPartRef == "aws_instance.foo"
FourPartRef == "aws_instance.foo.tags.Name"
LiteralRef == "\"value1\""

\* an annotated output block in the form of README.md:18-25
AnnotatedBlock(name, reference) ==
  << "# @public",
     "output \"" \o name \o "\" {",
     "  value = " \o reference,
     "}" >>

\* a project with one declaration file, main.tf, that declares one annotated
\* output o1, o2, ... per reference
RECURSIVE DeclarationLines(_, _)
DeclarationLines(refs, k) ==
  IF k > Len(refs) THEN << >>
  ELSE AnnotatedBlock("o" \o Itoa(k), refs[k]) \o DeclarationLines(refs, k + 1)

DeclarationTree(refs) == << [path |-> "main.tf", lines |-> DeclarationLines(refs, 1)] >>

MaxDecls == 2

ProjectInput(status, st, sch, tree) ==
  [status |-> status, state |-> st, schema |-> sch, tree |-> tree]

\* main starts on the projects `paths`, which the tool finds as `w`; no
\* interface directory exists yet
InitWith(paths, w) ==
  /\ projects = paths
  /\ world = w
  /\ fs = [p \in DOMAIN w |-> [dir |-> FALSE, files |-> NoFiles]]
  /\ pc = "chdir"
  /\ idx = 1
  /\ state = << >>
  /\ schema = NoSchema
  /\ fileIdx = 0
  /\ lineNumber = 0
  /\ inAnnotation = FALSE
  /\ annotatedOutputs = << >>
  /\ validOutputs = << >>
  /\ stdout = << >>
  /\ run = 1
  /\ prevFs = [p \in DOMAIN w |-> [dir |-> FALSE, files |-> NoFiles]]
  /\ prevWorld = w

\* the schema of a project with the aws provider alone
AwsSchema == SchemaOf(AwsSource :> "aws_full")

\* one project; any schema over the four sources, the usual state, up to
\* MaxDecls annotated outputs; the projects whose path is missing or whose
\* terraform commands fail come with the aws schema and one output at most
Init ==
  \E sch \in Schemas({AwsSource, AwsTofuSource, LocalSource, ShortSource}),
     st \in { << FooEntry, BarEntry >> },
     refs \in SeqsUpTo({IdRef, FileRef, PetRef, TwoPartRef, LiteralRef},
                       MaxDecls),
     status \in {"applied", "missing", "no_state", "no_schema"} :
    /\ status # "applied" => sch = AwsSchema /\ refs \in { << >>, << IdRef >> }
    /\ InitWith(<< "p1" >>,
                "p1" :> ProjectInput(status, st, sch, DeclarationTree(refs)))

Spec == Init /\ [][Next]_vars

(***************************************************************************)
(* findAnnotatedOutputs alone, on a walk over files written from the       *)
(* pieces below                                                            *)
(***************************************************************************)

\* pieces of a declaration file: a marker comment, another comment, a blank
\* line, an output block in the form of README.md:18-25, an output block
\* written on one line, a block of another kind, and a block of another
\* kind with a line in it that begins with the declaration keyword
MarkerPiece == << "# @public" >>
CommentPiece == << "// note" >>
BlankPiece == << "" >>
BlockPiece == << "output \"a\" {", "  value = aws_instance.foo.id", "}" >>
OneLinePiece == << "output \"b\" { value = local_file.bar.filename }" >>
ResourcePiece == << "resource \"null_resource\" \"r\" {}" >>
LocalsPiece == << "locals {", "  output_dir = \"out\"", "}" >>

\* an output block with a nested block that closes on its own line before
\* the value assignment
NestedPiece ==
  << "output \"n\" {",
     "  precondition {",
     "  }",
     "  value = aws_instance.foo.id",
     "}" >>

Pieces ==
  { MarkerPiece, CommentPiece, BlankPiece, BlockPiece, OneLinePiece,
    ResourcePiece, LocalsPiece, NestedPiece }

MaxPieces == 3

\* the lines of a file written as the pieces ps, from piece k on
RECURSIVE PieceLines(_, _)
PieceLines(ps, k) ==
  IF k > Len(ps) THEN << >> ELSE ps[k] \o PieceLines(ps, k + 1)

\* an entry of the walk that is no declaration file
NotesFile == [path |-> "notes.txt", lines |-> << "# @public" >>]

\* a declaration file that the walk visits before main.tf: it has a marked
\* output block and ends with a marker comment
HeadFile ==
  [path |-> "a.tf", lines |-> MarkerPiece \o BlockPiece \o MarkerPiece]

\* a declaration file with a marked declaration written on one line, and a
\* marked output block after it
SpanFile ==
  [path |-> "main.tf",
   lines |-> MarkerPiece \o OneLinePiece \o MarkerPiece \o BlockPiece]

\* a declaration file with three marked declarations: an output block, an
\* output block with a nested block, and a declaration written on one line
\* that ends the file
PairFile ==
  [path |-> "main.tf",
   lines |-> MarkerPiece \o BlockPiece \o MarkerPiece \o NestedPiece
               \o MarkerPiece \o OneLinePiece]

\* the walks: a declaration file, alone, after the other entry or after
\* another declaration file
ScanTrees ==
  UNION { { << [path |-> "main.tf", lines |-> PieceLines(ps, 1)] >>,
            << NotesFile, [path |-> "main.tf", lines |-> PieceLines(ps, 1)] >>,
            << HeadFile, [path |-> "main.tf", lines |-> PieceLines(ps, 1)] >> } :
          ps \in SeqsUpTo(Pieces, MaxPieces) }
    \cup { << SpanFile >>, << PairFile >>, << HeadFile, PairFile >> }

\* main is about to call findAnnotatedOutputs (main.go:402)
InitScan ==
  \E tree \in ScanTrees :
    /\ projects = << "p1" >>
    /\ world = ("p1" :> ProjectInput("applied", << >>, NoSchema, tree))
    /\ fs = ("p1" :> [dir |-> FALSE, files |-> NoFiles])
    /\ pc = "scan"
    /\ idx = 1
    /\ state = << >>
    /\ schema = NoSchema
    /\ fileIdx = 0
    /\ lineNumber = 0
    /\ inAnnotation = FALSE
    /\ annotatedOutputs = << >>
    /\ validOutputs = << >>
    /\ stdout = << >>
    /\ run = 1
    /\ prevFs = ("p1" :> [dir |-> FALSE, files |-> NoFiles])
    /\ prevWorld = ("p1" :> ProjectInput("applied", << >>, NoSchema, tree))

NextScan ==
  \/ WalkFile
  \/ ScanLine
  \/ ScanDone

SpecScan == InitScan /\ [][NextScan]_vars

(***************************************************************************)
(* main on a list of projects (terraform_project_paths of config.yaml,     *)
(* main.go:364-369, 384)                                                   *)
(***************************************************************************)

MaxProjects == 2

\* the paths p1, p2, ... of the list
ProjectPath(k) == "p" \o Itoa(k)
ProjectPaths == [k \in 1..MaxProjects |-> ProjectPath(k)]

\* what the tool may find at a project path
Statuses == {"applied", "missing", "no_state", "no_schema"}

\* each project is applied or not, with the aws schema and the usual state,
\* and declares one annotated output or none
InitProjects ==
  \E status \in [1..MaxProjects -> Statuses],
     refs \in [1..MaxProjects -> { << >>, << IdRef >> }] :
    InitWith(ProjectPaths,
             [p \in { ProjectPath(k) : k \in 1..MaxProjects } |->
                LET k == CHOOSE k \in 1..MaxProjects : ProjectPath(k) = p
                IN ProjectInput(status[k], << FooEntry, BarEntry >>, AwsSchema,
                                DeclarationTree(refs[k]))])

SpecProjects == InitProjects /\ [][Next]_vars

(***************************************************************************)
(* The generators on a project whose state and references vary, in an      *)
(* interface directory that may hold the files of an earlier run; a second *)
(* project comes after it in the list                                      *)
(***************************************************************************)

\* references with an empty resource name and with an empty resource type
EmptyNameRef == "aws_instance..id"
EmptyTypeRef == ".foo.id"

\* states: the resource has an entry, has none, has an indexed instance
\* only, or has two entries of which the second alone has the id
IndexedEntry == [Address |-> "aws_instance.foo[0]", Values |-> ("id" :> Str("i-123"))]
ArnEntry == [Address |-> "aws_instance.foo", Values |-> ("arn" :> Str("arn:aws:ec2"))]

GenerateStates ==
  { << FooEntry, BarEntry >>,
    << BarEntry >>,
    << IndexedEntry, BarEntry >>,
    << ArnEntry, FooEntry >> }

\* the files a completed run on `value = aws_instance.foo.id` has left
EarlierFiles ==
  (DataFile :> DataBlock("aws_instance", "foo", << "id", "arn" >>,
                         << FooEntry, BarEntry >>))
    @@ (ProvidersFile :> ProvidersText(<< "aws" >>, "aws" :> AwsSource))

InitGenerate ==
  \E st \in GenerateStates,
     refs \in SeqsUpTo({IdRef, TwoPartRef, EmptyNameRef, EmptyTypeRef}, MaxDecls),
     earlier \in { [dir |-> FALSE, files |-> NoFiles],
                   [dir |-> TRUE, files |-> EarlierFiles] } :
    /\ projects = << "p1", "p2" >>
    /\ world = ("p1" :> ProjectInput("applied", st, AwsSchema, DeclarationTree(refs)))
                 @@ ("p2" :> ProjectInput("applied", << FooEntry, BarEntry >>,
                                          AwsSchema, DeclarationTree(<< IdRef >>)))
    /\ fs = ("p1" :> earlier) @@ ("p2" :> [dir |-> FALSE, files |-> NoFiles])
    /\ pc = "chdir"
    /\ idx = 1
    /\ state = << >>
    /\ schema = NoSchema
    /\ fileIdx = 0
    /\ lineNumber = 0
    /\ inAnnotation = FALSE
    /\ annotatedOutputs = << >>
    /\ validOutputs = << >>
    /\ stdout = << >>
    /\ run = 1
    /\ prevFs = fs
    /\ prevWorld = world

SpecGenerate == InitGenerate /\ [][Next]_vars

(***************************************************************************)
(* Properties of findAnnotatedOutputs                                      *)
(***************************************************************************)

\* findAnnotatedOutputs has returned
Scanned == pc # "scan"

\* the name and the reference of each annotated output, in order
NamesAndReferences(outputs) ==
  [i \in DOMAIN outputs |-> << outputs[i].Output, outputs[i].Reference >>]

\* an output block as its author wrote it: the literal name between the first
\* pair of quotes of its starting line
WrittenName(line) == Split(line, "\"")[2]

\* the starting line closes the block it opens
ClosedOnLine(line) == Contains(line, "}")

\* the line on which the block that line n opens is closed, by the count of
\* opening and closing delimiters from line n on (depth: the count before
\* line k)
RECURSIVE WrittenEndFrom(_, _, _)
WrittenEndFrom(lines, k, depth) ==
  LET d == depth + CountOf(lines[k], "{") - CountOf(lines[k], "}")
  IN IF d <= 0 \/ k = Len(lines) THEN k ELSE WrittenEndFrom(lines, k + 1, d)

WrittenEnd(lines, n) == WrittenEndFrom(lines, n, 0)

\* the text of the value expression written in the block text `block`: what
\* follows `value = ` on its line, up to the closing delimiter when the block
\* closes on that line
WrittenValue(block) ==
  LET from == Index(block, "value = ") + 8
      to == LineEnd(block, from) - 1
      last == IF CharAt(block, to) = "}" THEN SkipSpaceBack(block, to - 1) ELSE to
  IN SubSeq(block, from, last)

\* the output blocks of `lines` from line n on that come right after a run of
\* comment lines with the marker in it (marked: the run of comments that ends
\* before line n has the marker), top to bottom
RECURSIVE MarkedBlocks(_, _, _)
MarkedBlocks(lines, n, marked) ==
  IF n > Len(lines) THEN << >>
  ELSE LET line == TrimSpace(lines[n])
       IN IF IsComment(line)
          THEN MarkedBlocks(lines, n + 1, marked \/ Contains(line, Marker))
          ELSE IF IsOutputStart(line)
          THEN LET end == WrittenEnd(lines, n)
                   block == << WrittenName(line),
                               WrittenValue(BlockText(lines, n, end)) >>
               IN (IF marked THEN << block >> ELSE << >>)
                    \o MarkedBlocks(lines, end + 1, FALSE)
          ELSE MarkedBlocks(lines, n + 1, FALSE)

\* the marked blocks of the declaration files of a walk, in walk order
RECURSIVE MarkedBlocksOfTree(_, _)
MarkedBlocksOfTree(tree, k) ==
  IF k > Len(tree) THEN << >>
  ELSE (IF IsDeclarationFile(tree[k].path)
        THEN MarkedBlocks(tree[k].lines, 1, FALSE) ELSE << >>)
         \o MarkedBlocksOfTree(tree, k + 1)

\* the elements of a occur in b, in the order of a
RECURSIVE IsSubsequence(_, _)
IsSubsequence(a, b) ==
  IF Len(a) = 0 THEN TRUE
  ELSE IF Len(b) = 0 THEN FALSE
  ELSE IF a[1] = b[1] THEN IsSubsequence(Tail(a), Tail(b))
  ELSE IsSubsequence(a, Tail(b))

\* C1: each output block that comes right after a run of comment lines with
\* the marker in it yields exactly one annotated output, with the block's
\* literal name and exactly the text of its value expression, and these
\* annotated outputs are in top-to-bottom order.
C1_MarkedBlocksExtracted ==
  Scanned =>
    IsSubsequence(MarkedBlocksOfTree(CurTree, 1),
                  NamesAndReferences(annotatedOutputs))

\* the file of the walk with the path `path`
FileAt(tree, path) == tree[CHOOSE k \in DOMAIN tree : tree[k].path = path]

\* the output named `name` starts on some line of `lines` up to line `last`
\* that has a marker comment above it
StartsBelowMarker(lines, name, last) ==
  \E k, j \in 1..last :
    /\ k < j
    /\ IsMarkerComment(TrimSpace(lines[k]))
    /\ IsOutputStart(TrimSpace(lines[j]))
    /\ WrittenName(TrimSpace(lines[j])) = name

\* no comment line of the walk's declaration files holds the marker
NoMarkerComments(tree) ==
  \A k \in DOMAIN tree :
    IsDeclarationFile(tree[k].path) =>
      \A n \in DOMAIN tree[k].lines : ~IsMarkerComment(TrimSpace(tree[k].lines[n]))

\* C2: an output block with no marker comment before it is never extracted:
\* every annotated output starts below a marker comment of its file, and a
\* walk over files without marker comments yields no annotated output.
C2_NeverWithoutMarker ==
  /\ \A i \in DOMAIN annotatedOutputs :
       StartsBelowMarker(FileAt(CurTree, annotatedOutputs[i].File).lines,
                         annotatedOutputs[i].Output, annotatedOutputs[i].Line)
  /\ NoMarkerComments(CurTree) => annotatedOutputs = << >>

\* an output block above the first marker comment is passed over, and a
\* marked block after it is extracted
C2_Witness ==
  /\ Scanned
  /\ Len(annotatedOutputs) = 1
  /\ IsOutputStart(TrimSpace(CurTree[Len(CurTree)].lines[1]))
  /\ ~NoMarkerComments(CurTree)

(***************************************************************************)
(* Properties of a run of main                                             *)
(***************************************************************************)

\* main has returned from a run whose last project had a matched output
CompletedWithMatch == pc = "done" /\ Len(validOutputs) > 0

\* the interface directory of the project being processed
Interface == fs[CurPath]

\* C3: a project run with at least one annotated declaration that has a
\* matching data source, once it completes, leaves all three generated files
\* in the interface directory of the project.
C3_AllThreeFiles ==
  CompletedWithMatch =>
    /\ Interface.dir
    /\ { DataFile, OutputsFile, ProvidersFile } \subseteq DOMAIN Interface.files

\* the attribute path of a reference: what follows type.name
AttributePath(reference) ==
  Join(SubSeq(RefParts(reference), 3, Len(RefParts(reference))), ".")

\* the output block that republishes the annotated output `output` from its
\* data block (examples/.../interface/generated_outputs.tf)
OutputBlock(output) ==
  "output \"" \o output.Output \o "\" {\n"
    \o "  value = data." \o ResourceAddress(output.Reference) \o "."
    \o AttributePath(output.Reference) \o "\n}\n"

\* the output blocks of `outputs` from the i-th on, a blank line apart
RECURSIVE OutputBlocks(_, _)
OutputBlocks(outputs, i) ==
  IF i > Len(outputs) THEN ""
  ELSE IF i = Len(outputs) THEN OutputBlock(outputs[i])
  ELSE OutputBlock(outputs[i]) \o "\n" \o OutputBlocks(outputs, i + 1)

\* C4: every annotated declaration with a matching data source gets one
\* output block with its original name and the value
\* data.<type>.<name>.<attributePath>, N declarations of one resource get N
\* output blocks, in scan order.
C4_OneOutputBlockPerDeclaration ==
  CompletedWithMatch =>
    /\ OutputsFile \in DOMAIN Interface.files
    /\ Interface.files[OutputsFile] = OutputBlocks(validOutputs, 1)

\* the first line of the data block of the resource with this address
DataHeader(address) ==
  "data \"" \o Split(address, ".")[1] \o "\" \"" \o Split(address, ".")[2] \o "\" {\n"

\* some provider has a data source schema of this type
HasDataSource(resourceType, sch) ==
  \E p \in DOMAIN sch : resourceType \in DOMAIN sch[p].DataSourceSchemas

\* the reference resolves to a resource address: it has a type and a name
Resolves(reference) == Len(Split(reference, ".")) >= 2

\* the annotated outputs that resolve to a resource with a data source
MatchedDeclarations(outputs, sch) ==
  SelectSeq(outputs, LAMBDA o : Resolves(o.Reference)
                                  /\ HasDataSource(Split(o.Reference, ".")[1], sch))

\* the step of main that writes generated_data.tf leaves this content
DataStep(P(_)) == pc = "data" => P(fs'[CurPath].files[DataFile])

\* C5: N >= 1 annotated declarations that resolve to the same resource
\* address get exactly one data block for that address in generated_data.tf,
\* and the match check of main is made on each of them.
C5_OneDataBlockPerAddress ==
  [][/\ DataStep(LAMBDA content :
           \A i \in DOMAIN annotatedOutputs :
             LET o == annotatedOutputs[i]
             IN Resolves(o.Reference) /\ HasDataSource(Split(o.Reference, ".")[1], schema)
                  => CountOf(content, DataHeader(ResourceAddress(o.Reference))) = 1)
     /\ pc = "filter" =>
          validOutputs' = MatchedDeclarations(annotatedOutputs, schema)]_vars

\* the resource type an annotated output refers to: the first component
TypeOf(output) == Split(output.Reference, ".")[1]

\* the annotated output refers to a resource of a type that no provider has
\* a data source for
Unmatched(output, sch) ==
  Resolves(output.Reference) /\ ~HasDataSource(TypeOf(output), sch)

\* one warning, with name, line and file, for each unmatched annotated
\* output, in scan order
RECURSIVE UnmatchedWarnings(_, _, _)
UnmatchedWarnings(outputs, i, sch) ==
  IF i > Len(outputs) THEN << >>
  ELSE (IF ~Unmatched(outputs[i], sch) THEN << >>
        ELSE << [Output |-> outputs[i].Output, Line |-> outputs[i].Line,
                 File |-> outputs[i].File] >>)
         \o UnmatchedWarnings(outputs, i + 1, sch)

\* C6: a resource type without a data source schema in any provider gets no
\* block in generated_data.tf and one warning, with the file and the line,
\* for each annotated declaration that refers to it; the other declarations
\* are still processed.
C6_WarningPerUnmatchedDeclaration ==
  [][/\ pc = "filter" =>
          stdout' = stdout \o UnmatchedWarnings(annotatedOutputs, 1, schema)
     /\ DataStep(LAMBDA content :
           \A i \in DOMAIN annotatedOutputs :
             Unmatched(annotatedOutputs[i], schema)
               => CountOf(content, "data \"" \o TypeOf(annotatedOutputs[i]) \o "\" ") = 0)]_vars

\* the lines of a generated file
LinesOf(content) == Split(content, "\n")

\* the lines of `lines` that open a data block
BlockStarts(lines) == { h \in DOMAIN lines : HasPrefix(lines[h], "data \"") }

\* the line that closes the block opened on line h
BlockEnd(lines, h) ==
  CHOOSE k \in DOMAIN lines :
    k > h /\ lines[k] = "}" /\ \A j \in (h + 1)..(k - 1) : lines[j] # "}"

\* the lines between the opening and the closing line of the block
BlockBody(lines, h) == SubSeq(lines, h + 1, BlockEnd(lines, h) - 1)

\* type and name of the block opened by `line`
BlockType(line) == Split(line, "\"")[2]
BlockName(line) == Split(line, "\"")[4]

\* the state entries of the resource with this address that have the attribute
EntriesWith(st, address, attr) ==
  { i \in DOMAIN st : st[i].Address = address /\ attr \in DOMAIN st[i].Values }

\* the line a required attribute is rendered as: with the value of the state
\* entry of the address, or with the empty string when state has none
RenderedAttribute(st, address, attr) ==
  IF EntriesWith(st, address, attr) # {}
  THEN LET i == CHOOSE i \in EntriesWith(st, address, attr) :
                  \A j \in EntriesWith(st, address, attr) : i <= j
       IN "  " \o attr \o " = \"" \o FormatV(st[i].Values[attr]) \o "\""
  ELSE "  " \o attr \o " = \"\""

\* the lines `body` render each of the attributes `required` exactly once
RendersEachOnce(body, required, st, address) ==
  /\ Len(body) = Cardinality(required)
  /\ \A a \in required :
       Cardinality({ k \in DOMAIN body : body[k] = RenderedAttribute(st, address, a) }) = 1

\* C7: the data block of a matched resource renders every required attribute
\* of its data source exactly once, as name = "<value>" with the value of the
\* state entry whose address is type.name, or as name = "" when state has no
\* such attribute; an absent attribute neither ends the run nor removes the
\* block.
C7_RequiredAttributesRendered ==
  [][DataStep(LAMBDA content :
       LET lines == LinesOf(content)
       IN /\ \A h \in BlockStarts(lines) :
               LET type == BlockType(lines[h])
                   address == type \o "." \o BlockName(lines[h])
               IN \E p \in DOMAIN schema :
                    /\ type \in DOMAIN schema[p].DataSourceSchemas
                    /\ RendersEachOnce(
                         BlockBody(lines, h),
                         { a \in DOMAIN schema[p].DataSourceSchemas[type] :
                             schema[p].DataSourceSchemas[type][a].Required },
                         state, address)
          /\ (\A i \in DOMAIN validOutputs :
                ~NotThreeParts(validOutputs[i].Reference)) => pc' = "providers"
          /\ pc' = "providers" =>
               \A i \in DOMAIN validOutputs :
                 CountOf(content,
                         DataHeader(ResourceAddress(validOutputs[i].Reference))) = 1)]_vars

\* generated_data.tf has just been written with a block that renders one
\* attribute from state and one that state does not have
C7_Witness ==
  /\ pc = "providers"
  /\ Contains(Interface.files[DataFile], "  id = \"i-123\"\n")
  /\ Contains(Interface.files[DataFile], "  arn = \"\"\n")

\* a second run has ended on the declaration files, the state and the schema
\* that the run before it found
RanTwiceOnSameInputs == run > 1 /\ Exited /\ world = prevWorld

\* C8: two runs on identical declaration files, state and schema leave
\* byte-identical generated files, also when several providers define a data
\* source of one type, a data source has several required attributes or
\* several providers are listed.
C8_RunsAgree == RanTwiceOnSameInputs => fs = prevFs

\* some annotated output of the project run refers to a resource of a type
\* that has a data source
SomeDeclarationMatches ==
  \E i \in DOMAIN annotatedOutputs :
    /\ Resolves(annotatedOutputs[i].Reference)
    /\ HasDataSource(TypeOf(annotatedOutputs[i]), schema)

\* C9: a project run in which no annotated declaration has a matching data
\* source (or that has no annotated declaration at all) creates and modifies
\* nothing: no interface directory, no generated file.
C9_NothingCreatedWithoutMatch ==
  [][fs' # fs => SomeDeclarationMatches]_vars

\* a run with annotated outputs, none of them matched, has completed with a
\* warning and without an interface directory
C9_Witness ==
  /\ pc = "done"
  /\ run = 1
  /\ Len(annotatedOutputs) > 0
  /\ ~SomeDeclarationMatches
  /\ Len(stdout) > 0
  /\ ~Interface.dir
  /\ Interface.files = NoFiles

\* the step of main that writes generated_providers.tf leaves this content
ProvidersStep(P(_)) == pc = "providers" => P(fs'[CurPath].files[ProvidersFile])

\* the short name of a provider: the last segment of its source
ShortName(source) == Split(source, "/")[Len(Split(source, "/"))]

\* the providers with a resource schema of the type of a matched output
NeededProviders(outputs, sch) ==
  { p \in DOMAIN sch :
      \E i \in DOMAIN outputs : TypeOf(outputs[i]) \in sch[p].ResourceSchemas }

\* the entry of the provider `name` with the source `source`
RequiredProvider(name, source) ==
  "    " \o name \o " = {\n      source = \"" \o source \o "\"\n    }\n"

\* C10: generated_providers.tf lists exactly the providers that have, in
\* their resource schemas, the type of a matched resource, once per short
\* name and with the full source of such a provider.
C10_ExactlyNeededProviders ==
  [][ProvidersStep(LAMBDA content :
       LET needed == NeededProviders(validOutputs, schema)
           names == { ShortName(p) : p \in needed }
       IN /\ CountOf(content, " = {\n") = Cardinality(names)
          /\ \A n \in names :
               /\ CountOf(content, "    " \o n \o " = {\n") = 1
               /\ \E p \in needed :
                    ShortName(p) = n /\ Contains(content, RequiredProvider(n, p)))]_vars

\* C11: the short name under which a provider is rendered is the last
\* segment of its source, whatever the number of segments, and writing
\* generated_providers.tf does not fail on a source such as hashicorp/aws:
\* each provider with the type of a matched output has an entry under the
\* last segment of its source.
C11_ShortNameIsLastSegment ==
  [][pc = "providers" =>
       /\ pc' = "leave"
       /\ \A p \in NeededProviders(validOutputs, schema) :
            Contains(fs'[CurPath].files[ProvidersFile],
                     "    " \o ShortName(p) \o " = {\n")]_vars

\* the sources of the entries of a generated_providers.tf
ListedSources(content) ==
  { Split(LinesOf(content)[k], "\"")[2] :
      k \in { j \in DOMAIN LinesOf(content) :
                HasPrefix(LinesOf(content)[j], "      source = \"") } }

\* the data source types of the blocks of a generated_data.tf
DataBlockTypes(content) ==
  { BlockType(LinesOf(content)[h]) : h \in BlockStarts(LinesOf(content)) }

\* the provider with this source defines a data source of this type
DefinesDataSource(sch, source, type) ==
  source \in DOMAIN sch /\ type \in DOMAIN sch[source].DataSourceSchemas

\* C12: when both generated files have been written, every provider listed
\* in generated_providers.tf defines the data source type of some data block
\* of generated_data.tf, and every data block of generated_data.tf has a
\* provider listed that defines its data source type.
C12_OnlyNecessaryProviders ==
  [][pc = "providers" /\ pc' = "leave" =>
       LET listed == ListedSources(fs'[CurPath].files[ProvidersFile])
           types == DataBlockTypes(fs[CurPath].files[DataFile])
       IN /\ \A p \in listed : \E t \in types : DefinesDataSource(schema, p, t)
          /\ \A t \in types : \E p \in listed : DefinesDataSource(schema, p, t)]_vars

\* C13: a reference with fewer than two dotted components is a problem of
\* its declaration alone: the loop of main over the annotated outputs does
\* not end the run on it, drops it and keeps every declaration that
\* resolves to a resource with a data source.
C13_MalformedReferenceDropped ==
  [][pc = "filter" =>
       /\ pc' # "fatal"
       /\ \A i \in DOMAIN annotatedOutputs :
            ~Resolves(annotatedOutputs[i].Reference) =>
              \A j \in DOMAIN validOutputs' : validOutputs'[j] # annotatedOutputs[i]
       /\ IsSubsequence(MatchedDeclarations(annotatedOutputs, schema),
                        validOutputs')]_vars

\* C14: a matched reference with two or more dotted components goes through
\* the generator of generated_data.tf without ending the run, its first
\* component the type and its second the name of its data block.
C14_AnyReferenceWithTwoComponents ==
  [][pc = "data" =>
       /\ pc' = "providers"
       /\ \A i \in DOMAIN validOutputs :
            Contains(fs'[CurPath].files[DataFile],
                     DataHeader(ResourceAddress(validOutputs[i].Reference)))]_vars

\* the project found as w has a marked declaration that resolves to a
\* resource with a data source, and its state and schema can be obtained
Publishable(w) ==
  /\ w.status = "applied"
  /\ \E i \in DOMAIN MarkedBlocksOfTree(w.tree, 1) :
       LET reference == MarkedBlocksOfTree(w.tree, 1)[i][2]
       IN Resolves(reference) /\ HasDataSource(Split(reference, ".")[1], w.schema)

\* C15: in a run over a list of projects, a project whose path is missing or
\* whose state or schema cannot be obtained is skipped and the projects
\* after it are still processed: once the run is over, every project of the
\* list that has something to publish has its interface directory with
\* generated_data.tf.
C15_FailedProjectSkipped ==
  Exited =>
    \A k \in DOMAIN projects :
      Publishable(world[projects[k]]) =>
        /\ fs[projects[k]].dir
        /\ DataFile \in DOMAIN fs[projects[k]].files

\* the generated files a run with these matched outputs, this state and this
\* schema may leave when it completes: none without a matched output
Artifacts(outputs, st, sch) ==
  IF Len(outputs) = 0 THEN { NoFiles }
  ELSE { (DataFile :> d) @@ (ProvidersFile :> p) :
           d \in createTerraformFile(outputs, st, sch).contents,
           p \in createProviderFile(outputs, sch).contents }

\* the run before this one completed with its generated files written
PreviousRunCompleted ==
  /\ run > 1
  /\ ProvidersFile \in DOMAIN prevFs[CurPath].files
  /\ prevFs[CurPath].files[ProvidersFile] # ""

\* C16: a re-run fully overwrites the artifacts of the runs before it: when
\* a run after a completed run completes, the generated files in the
\* interface directory are exactly those that the inputs of this last run
\* determine, and no file or content of an earlier run is left.
C16_RerunOverwrites ==
  pc = "done" /\ PreviousRunCompleted =>
    Interface.files \in Artifacts(validOutputs, state, schema)

\* some provider has a resource schema of this type
HasResource(resourceType, sch) ==
  \E p \in DOMAIN sch : resourceType \in sch[p].ResourceSchemas

\* every annotated output has a reference with a type and a name
AllResolve(outputs) == \A i \in DOMAIN outputs : Resolves(outputs[i].Reference)

\* C17: of annotated outputs that all resolve, the validity filter of main
\* retains each output whose resource type some provider has in its
\* resource schemas, also when no provider has a data source of the type,
\* drops each output whose type is in no schema, and returns the retained
\* outputs in scan order.
C17_FilterRetainsResourceTypes ==
  [][pc = "filter" /\ AllResolve(annotatedOutputs) =>
       /\ \A i \in DOMAIN annotatedOutputs :
            LET o == annotatedOutputs[i]
                retained == \E j \in DOMAIN validOutputs' : validOutputs'[j] = o
            IN /\ HasResource(TypeOf(o), schema) => retained
               /\ ~HasResource(TypeOf(o), schema) /\ ~HasDataSource(TypeOf(o), schema)
                    => ~retained
       /\ IsSubsequence(validOutputs', annotatedOutputs)]_vars

\* the elements of a sequence
Range(seq) == { seq[k] : k \in DOMAIN seq }

\* main has fetched the schema and has the annotated outputs at hand
Matching == pc \in {"filter", "mkdir", "data", "providers"}

\* C18: findMatchingDataResource returns found = true exactly when some
\* provider has a data source schema of the reference's resource type, and
\* then its requiredAttributes are the attribute names with the required
\* flag of one such schema, each once and no other name.
C18_FoundWithRequiredAttributes ==
  Matching =>
    \A i \in DOMAIN annotatedOutputs :
      LET reference == annotatedOutputs[i].Reference
          type == Split(reference, ".")[1]
      IN Resolves(reference) =>
           \A r \in findMatchingDataResource(reference, schema) :
             /\ r[1] <=> HasDataSource(type, schema)
             /\ r[1] = hasMatchingDataResource(reference, schema)
             /\ ~r[1] => r[2] = << >>
             /\ r[1] =>
                  \E p \in DOMAIN schema :
                    /\ type \in DOMAIN schema[p].DataSourceSchemas
                    /\ LET required ==
                             { a \in DOMAIN schema[p].DataSourceSchemas[type] :
                                 schema[p].DataSourceSchemas[type][a].Required }
                       IN /\ Range(r[2]) = required
                          /\ Len(r[2]) = Cardinality(required)

\* a data block has been written from a data source schema that has an
\* optional and a computed attribute besides its required one
C18_Witness ==
  /\ pc = "providers"
  /\ DOMAIN schema = { AwsTofuSource }
  /\ Len(validOutputs) = 1
  /\ Interface.files[DataFile] = "data \"aws_instance\" \"foo\" {\n  id = \"i-123\"\n}\n\n"

(***************************************************************************)
(* The recognizer of findAnnotatedOutputs: SEEKING is inAnnotation = FALSE, *)
(* ANNOTATED is inAnnotation = TRUE                                        *)
(***************************************************************************)

\* the line the outer loop reads next, trimmed
NextLine == TrimSpace(CurTree[fileIdx].lines[lineNumber + 1])

\* the outer loop is about to read a line
Reading == pc = "scan" /\ MoreLines

\* the line begins a declaration with a quoted name
NamesOutput(line) == HasPrefix(line, Keyword \o " \"")

\* C19: while the recognizer is ANNOTATED, a comment line (with or without
\* the marker) and a non-comment line that does not begin with the keyword
\* leave it ANNOTATED and emit nothing; the first line that begins with the
\* keyword starts the capture, which runs to the closing line and emits the
\* declaration under its name.
C19_AnnotatedUntilKeyword ==
  [][Reading /\ inAnnotation =>
       IF IsOutputStart(NextLine)
       THEN /\ lineNumber' = CaptureEnd(CurTree[fileIdx].lines, lineNumber + 1)
            /\ NamesOutput(NextLine) =>
                 /\ Len(annotatedOutputs') = Len(annotatedOutputs) + 1
                 /\ annotatedOutputs'[Len(annotatedOutputs')].Output
                      = WrittenName(NextLine)
       ELSE /\ inAnnotation'
            /\ lineNumber' = lineNumber + 1
            /\ annotatedOutputs' = annotatedOutputs]_vars

\* a marked declaration has been captured across another comment, a blank
\* line or a block of another kind between the marker and the declaration
C19_Witness ==
  /\ Scanned
  /\ Len(annotatedOutputs) = 1
  /\ LET lines == CurTree[Len(CurTree)].lines
     IN /\ Len(lines) >= 3
        /\ IsMarkerComment(lines[1])
        /\ lines[2] \in { CommentPiece[1], BlankPiece[1], ResourcePiece[1] }
        /\ IsOutputStart(lines[3])

\* the number of annotated outputs emitted from the file `path`
EmittedFrom(outputs, path) ==
  Cardinality({ i \in DOMAIN outputs : outputs[i].File = path })

\* the number of marker comments among the first n lines
MarkerLines(lines, n) ==
  Cardinality({ k \in 1..n : IsMarkerComment(TrimSpace(lines[k])) })

\* C20: a capture leaves the recognizer in SEEKING whether or not it emitted
\* a declaration, a declaration is only emitted from ANNOTATED, and only a
\* marker comment read by the outer loop takes the recognizer from SEEKING
\* to ANNOTATED; so one marker run annotates at most one declaration, and a
\* file never has more declarations emitted than marker comments read.
C20_OneDeclarationPerMarkerRun ==
  /\ [][Reading =>
          /\ inAnnotation /\ IsOutputStart(NextLine) => ~inAnnotation'
          /\ annotatedOutputs' # annotatedOutputs =>
               /\ inAnnotation /\ ~inAnnotation'
               /\ Len(annotatedOutputs') = Len(annotatedOutputs) + 1
          /\ ~inAnnotation /\ inAnnotation' =>
               IsMarkerComment(NextLine) /\ lineNumber' = lineNumber + 1]_vars
  /\ [](pc = "scan" /\ FileOpen =>
          EmittedFrom(annotatedOutputs, CurTree[fileIdx].path)
            <= MarkerLines(CurTree[fileIdx].lines, lineNumber))

\* one marker has been followed by a capture that emitted a declaration and
\* by a second output block that was passed over, or by a capture that
\* emitted nothing and an output block that was passed over
C20_Witness ==
  /\ Scanned
  /\ LET lines == CurTree[Len(CurTree)].lines
     IN /\ MarkerLines(lines, Len(lines)) = 1
        /\ IsMarkerComment(lines[1])
        /\ \/ /\ lines = MarkerPiece \o BlockPiece \o BlockPiece
              /\ Len(annotatedOutputs) = 1
           \/ /\ lines = MarkerPiece \o LocalsPiece \o BlockPiece
              /\ Len(annotatedOutputs) = 0

\* the lines of the file being read
CurLines == CurTree[fileIdx].lines

\* the first line after line n that, trimmed, begins with the closing
\* delimiter, or the last line of the file when there is none
FirstClosingAfter(lines, n) ==
  IF \E k \in (n + 1)..Len(lines) : HasPrefix(TrimSpace(lines[k]), "}")
  THEN CHOOSE k \in (n + 1)..Len(lines) :
         /\ HasPrefix(TrimSpace(lines[k]), "}")
         /\ \A j \in (n + 1)..(k - 1) : ~HasPrefix(TrimSpace(lines[j]), "}")
  ELSE Len(lines)

\* the outer loop is about to start a capture on the line it reads next
Capturing == Reading /\ inAnnotation /\ IsOutputStart(NextLine)

\* the annotated output a step has appended
Appended == annotatedOutputs'[Len(annotatedOutputs')]

\* C21: a capture ends at the first line after its starting line that,
\* trimmed, begins with the closing delimiter, whatever the nesting: when a
\* nested block closes there before the value assignment, the captured
\* block has no value, and the outer loop goes on in SEEKING with the line
\* after the nested closing delimiter.
C21_CaptureEndsAtFirstClosing ==
  [][Capturing =>
       LET n == lineNumber + 1
           end == FirstClosingAfter(CurLines, n)
       IN /\ lineNumber' = end
          /\ ~inAnnotation'
          /\ /\ annotatedOutputs' # annotatedOutputs
             /\ \A k \in n..end : ~Contains(CurLines[k], "value")
             => Appended.Reference = ""]_vars

\* the marked block with a nested block has been captured up to the nested
\* closing delimiter and emitted without a reference; the value line after
\* it was read in SEEKING
C21_Witness ==
  /\ Scanned
  /\ CurTree[Len(CurTree)].lines = MarkerPiece \o NestedPiece
  /\ Len(annotatedOutputs) = 1
  /\ annotatedOutputs[1].Output = "n"
  /\ annotatedOutputs[1].Line = 4
  /\ annotatedOutputs[1].Reference = ""

\* C22: an annotated output is emitted only when both its name and its
\* value expression can be extracted from the captured block: every emitted
\* annotated output has a non-empty reference.
C22_EmittedWithReference ==
  \A i \in DOMAIN annotatedOutputs : annotatedOutputs[i].Reference # ""

\* C26: the starting line of a capture is not tested for the closing
\* delimiter: the capture of a declaration written on one line runs on to
\* the next line that begins with the closing delimiter, or to the end of
\* the file, and emits the one declaration named on the starting line, so
\* what lies in that span is not emitted as a declaration of its own.
C26_OneLineCaptureRunsOn ==
  [][Capturing /\ ClosedOnLine(NextLine) =>
       LET n == lineNumber + 1
       IN /\ lineNumber' = FirstClosingAfter(CurLines, n)
          /\ n < Len(CurLines) => lineNumber' > n
          /\ Len(annotatedOutputs') = Len(annotatedOutputs) + 1
          /\ Appended.Output = WrittenName(NextLine)]_vars

\* a marked one-line declaration has consumed the marker comment and the
\* output block after it: only the one-line declaration is emitted
C26_Witness ==
  /\ Scanned
  /\ CurTree = << SpanFile >>
  /\ Len(annotatedOutputs) = 1
  /\ annotatedOutputs[1].Output = "b"
  /\ annotatedOutputs[1].Line = 6

\* C27: the Line of an emitted annotated output is the number of the last
\* line its capture consumed, a line that begins with the closing delimiter
\* or the last line of the file, and not less than the line of the keyword;
\* the Lines of the outputs emitted from one file increase strictly.
C27_LineIsLastCaptured ==
  /\ [][Reading /\ annotatedOutputs' # annotatedOutputs =>
          /\ Appended.File = CurTree[fileIdx].path
          /\ Appended.Line = lineNumber'
          /\ Appended.Line >= lineNumber + 1
          /\ \/ HasPrefix(TrimSpace(CurLines[Appended.Line]), "}")
             \/ Appended.Line = Len(CurLines)]_vars
  /\ [](\A i, j \in DOMAIN annotatedOutputs :
          i < j /\ annotatedOutputs[i].File = annotatedOutputs[j].File
            => annotatedOutputs[i].Line < annotatedOutputs[j].Line)

\* the walk over a.tf and main.tf has emitted one declaration from a.tf and
\* three from main.tf: the Lines of the three are those of the closing
\* delimiter of the first block, of the nested closing delimiter of the
\* second, and of the last line of the file, and the Line of the first of
\* them is not above the Line of the declaration of a.tf
C27_Witness ==
  /\ Scanned
  /\ CurTree = << HeadFile, PairFile >>
  /\ Len(annotatedOutputs) = 4
  /\ annotatedOutputs[1].File = "a.tf"
  /\ annotatedOutputs[1].Line = 4
  /\ \A i \in 2..4 : annotatedOutputs[i].File = "main.tf"
  /\ annotatedOutputs[2].Line = 4
  /\ annotatedOutputs[3].Line = 8
  /\ annotatedOutputs[4].Line = 12
  /\ annotatedOutputs[4].Line = Len(PairFile.lines)

\* the annotated outputs of one declaration file scanned on its own, from
\* the recognizer state sc on
RECURSIVE ScanFile(_, _)
ScanFile(file, sc) ==
  IF sc.lineNumber >= Len(file.lines) THEN sc.out
  ELSE ScanFile(file, ScanStep(file, sc))

\* the results of the files of a walk, each scanned on its own, in walk order
RECURSIVE FileByFile(_, _)
FileByFile(tree, k) ==
  IF k > Len(tree) THEN << >>
  ELSE (IF IsDeclarationFile(tree[k].path)
        THEN ScanFile(tree[k], [lineNumber |-> 0, inAnnotation |-> FALSE,
                                out |-> << >>])
        ELSE << >>)
         \o FileByFile(tree, k + 1)

\* C28: the recognizer is per file: every declaration file is opened in
\* SEEKING with its line counter at zero and opening it changes no result,
\* so a marker pending at the end of a file annotates nothing in a later
\* file, and the result of the walk is the results of its files, each
\* scanned on its own, one after the other in walk order.
C28_RecognizerPerFile ==
  /\ [][pc = "scan" /\ ~MoreLines /\ fileIdx < Len(CurTree) =>
          /\ annotatedOutputs' = annotatedOutputs
          /\ IsDeclarationFile(CurTree[fileIdx + 1].path) =>
               ~inAnnotation' /\ lineNumber' = 0]_vars
  /\ [](Scanned => annotatedOutputs = FileByFile(CurTree, 1))

\* the first file has ended with a marker pending, and the output block at
\* the top of the second file has not been emitted
C28_Witness ==
  /\ Scanned
  /\ Len(CurTree) = 2
  /\ CurTree[1] = HeadFile
  /\ CurTree[2].lines = BlockPiece \o MarkerPiece \o BlockPiece
  /\ Len(annotatedOutputs) = 2
  /\ annotatedOutputs[1].File = "a.tf"
  /\ annotatedOutputs[2].File = "main.tf"
  /\ annotatedOutputs[2].Line = 7
  /\ annotatedOutputs[1].Output = annotatedOutputs[2].Output

\* the least element of a non-empty set of numbers
Least(S) == CHOOSE k \in S : \A j \in S : k <= j

\* the position in scan order at which the resource with this address
\* first occurs among the outputs
FirstSeen(outputs, address) ==
  Least({ i \in DOMAIN outputs : ResourceAddress(outputs[i].Reference) = address })

\* the position in scan order of the first output that requires a provider
\* of this short name
FirstRequired(outputs, sch, name) ==
  Least({ i \in DOMAIN outputs :
            \E p \in DOMAIN sch :
              ShortName(p) = name /\ TypeOf(outputs[i]) \in sch[p].ResourceSchemas })

\* the data blocks of generated_data.tf stand in first-seen order of their
\* resources
DataBlocksInOrder(content, outputs) ==
  LET addresses == { ResourceAddress(outputs[i].Reference) : i \in DOMAIN outputs }
  IN \A a, b \in addresses :
       FirstSeen(outputs, a) < FirstSeen(outputs, b) =>
         Index(content, DataHeader(a)) < Index(content, DataHeader(b))

\* the entries of generated_providers.tf stand in the order in which the
\* outputs first require them
ProviderEntriesInOrder(content, outputs, sch) ==
  LET names == { ShortName(p) : p \in NeededProviders(outputs, sch) }
  IN \A a, b \in names :
       FirstRequired(outputs, sch, a) < FirstRequired(outputs, sch, b) =>
         Index(content, "    " \o a \o " = {\n")
           < Index(content, "    " \o b \o " = {\n")

\* C23: when the generators complete, the data blocks of generated_data.tf
\* and the provider entries of generated_providers.tf stand in first-seen
\* order of the matched resources: the block of a resource first seen
\* earlier comes first, and so does the provider entry it first requires.
C23_FirstSeenOrder ==
  [][/\ pc = "data" /\ pc' = "providers" =>
          DataBlocksInOrder(fs'[CurPath].files[DataFile], validOutputs)
     /\ pc = "providers" /\ pc' = "leave" =>
          ProviderEntriesInOrder(fs'[CurPath].files[ProvidersFile],
                                 validOutputs, schema)]_vars

(***************************************************************************)
(* Properties of the generators                                            *)
(***************************************************************************)

\* the state entries with exactly this address
EntriesAt(st, address) == { i \in DOMAIN st : st[i].Address = address }

\* the line of a required attribute when the first state entry with exactly
\* this address decides: its value there, or the empty string when that
\* entry has no such attribute or there is no such entry
RenderedFromFirstEntry(st, address, attr) ==
  IF EntriesAt(st, address) = {} THEN "  " \o attr \o " = \"\""
  ELSE LET i == Least(EntriesAt(st, address))
       IN IF attr \in DOMAIN st[i].Values
          THEN "  " \o attr \o " = \"" \o FormatV(st[i].Values[attr]) \o "\""
          ELSE "  " \o attr \o " = \"\""

\* the required attribute names of the data source schemas of this type
RequiredSets(sch, type) ==
  { { a \in DOMAIN sch[p].DataSourceSchemas[type] :
        sch[p].DataSourceSchemas[type][a].Required } :
      p \in { q \in DOMAIN sch : type \in DOMAIN sch[q].DataSourceSchemas } }

\* every data block of these lines renders each required attribute of its
\* type as the first state entry of its address decides
FirstEntryRendered(lines) ==
  \A h \in BlockStarts(lines) :
    LET type == BlockType(lines[h])
        address == type \o "." \o BlockName(lines[h])
        body == BlockBody(lines, h)
    IN \E required \in RequiredSets(schema, type) :
         /\ Len(body) = Cardinality(required)
         /\ \A a \in required :
              \E k \in DOMAIN body :
                body[k] = RenderedFromFirstEntry(state, address, a)

\* C24: a required attribute is looked up in the state entry whose address
\* equals type.name (an entry of an indexed instance does not count), and
\* that entry decides: the attribute is rendered with its value there, and
\* as absent when the entry has no such attribute, also when a later entry
\* with the same address has it.
C24_FirstEntryDecides ==
  [][pc = "data" /\ pc' = "providers" =>
       FirstEntryRendered(LinesOf(fs'[CurPath].files[DataFile]))]_vars

\* C25: every reference that passes the filter of main has a non-empty
\* resource type and a non-empty resource name, and no data block is
\* written for a resource without a name.
C25_TypeAndNameNotEmpty ==
  /\ \A i \in DOMAIN validOutputs :
       /\ RefParts(validOutputs[i].Reference)[1] # ""
       /\ RefParts(validOutputs[i].Reference)[2] # ""
  /\ \A p \in DOMAIN fs :
       DataFile \in DOMAIN fs[p].files =>
         ~Contains(fs[p].files[DataFile], "\" \"\" {\n")

\* some matched output has a reference without exactly three components
SomeNotThreeParts ==
  \E i \in DOMAIN validOutputs : NotThreeParts(validOutputs[i].Reference)

\* the file `name` of the interface directory of project p is after the
\* step as it was before it
FileKept(p, name) ==
  /\ name \in DOMAIN fs'[p].files <=> name \in DOMAIN fs[p].files
  /\ name \in DOMAIN fs[p].files => fs'[p].files[name] = fs[p].files[name]

\* C29: generated_data.tf is written before generated_providers.tf; when
\* the data generator ends the run on a matched reference that has not
\* exactly three components, generated_data.tf is left empty (truncated,
\* the buffered blocks not flushed), generated_providers.tf is not written,
\* and after the end of the run no project is processed.
C29_AbortLeavesTruncatedDataFile ==
  [][/\ pc = "data" /\ SomeNotThreeParts =>
          /\ pc' = "fatal"
          /\ fs'[CurPath].files[DataFile] = ""
          /\ FileKept(CurPath, ProvidersFile)
          /\ \A p \in DOMAIN fs : p # CurPath => fs'[p] = fs[p]
     /\ ~FileKept(CurPath, ProvidersFile) =>
          pc = "providers" /\ DataFile \in DOMAIN fs[CurPath].files
     /\ pc = "fatal" => run' = run + 1 /\ fs' = fs]_vars

\* the data generator has ended the run on the second matched output after
\* buffering the block of the first: the data file of the earlier run is
\* empty now, its providers file is as it was, and the second project has
\* not been entered
C29_Witness ==
  /\ pc = "fatal"
  /\ run = 1
  /\ idx = 1
  /\ Len(validOutputs) = 2
  /\ ~NotThreeParts(validOutputs[1].Reference)
  /\ NotThreeParts(validOutputs[2].Reference)
  /\ prevFs["p1"].files = EarlierFiles
  /\ fs["p1"].files[DataFile] = ""
  /\ fs["p1"].files[ProvidersFile] = EarlierFiles[ProvidersFile]
  /\ ~fs["p2"].dir

\* the body of the data block of this address in the lines of a
\* generated_data.tf, << >> when there is no such block
BodyOf(lines, address) ==
  LET hs == { h \in BlockStarts(lines) :
                BlockType(lines[h]) \o "." \o BlockName(lines[h]) = address }
  IN IF hs = {} THEN << >> ELSE BlockBody(lines, Least(hs))

\* C30: a matched resource whose address has no entry in the state still
\* gets its data block, with every required attribute rendered as the
\* empty string, and its provider entry; the generators do not end the run
\* on it.
C30_BlockWithoutStateEntry ==
  [][/\ pc = "data" /\ ~SomeNotThreeParts =>
          /\ pc' = "providers"
          /\ \A i \in DOMAIN validOutputs :
               LET address == ResourceAddress(validOutputs[i].Reference)
                   content == fs'[CurPath].files[DataFile]
                   body == BodyOf(LinesOf(content), address)
               IN ~getResourceState(address, state) =>
                    /\ CountOf(content, DataHeader(address)) = 1
                    /\ \E required \in RequiredSets(schema, TypeOf(validOutputs[i])) :
                         /\ Len(body) = Cardinality(required)
                         /\ \A a \in required :
                              \E k \in DOMAIN body : body[k] = "  " \o a \o " = \"\""
     /\ pc = "providers" /\ ~SomeNotThreeParts =>
          /\ pc' = "leave"
          /\ \A p \in NeededProviders(validOutputs, schema) :
               Contains(fs'[CurPath].files[ProvidersFile],
                        "    " \o ShortName(p) \o " = {\n")]_vars

\* both files have been written for a resource that the state has no entry
\* of: its block renders both required attributes as the empty string
C30_Witness ==
  /\ pc = "leave"
  /\ idx = 1
  /\ state = << BarEntry >>
  /\ Len(validOutputs) = 1
  /\ validOutputs[1].Reference = IdRef
  /\ CountOf(fs["p1"].files[DataFile], "  id = \"\"\n") = 1
  /\ CountOf(fs["p1"].files[DataFile], "  arn = \"\"\n") = 1
  /\ Contains(fs["p1"].files[ProvidersFile], "    aws = {\n")

====
